---- MODULE Spec2Model ----
(***************************************************************************)
(* Model of openfermion_dirac/_molecular_data_Dirac.py: the object state   *)
(* of MolecularData_Dirac and its four calculation methods                 *)
(*   get_integrals_FCIDUMP, get_energies, get_molecular_hamiltonian, save. *)
(*                                                                         *)
(* Representation.                                                         *)
(*  - A text file is [exists, lines]; a line is the sequence of its        *)
(*    whitespace-delimited tokens (what str.split() returns); a token is a *)
(*    string.                                                              *)
(*  - A Python float is an integer number of units, one unit being a       *)
(*    quarter of EQ_TOLERANCE.  Every float a token denotes is an even     *)
(*    number of units, so that the division by 2.0 is exact, as it is in   *)
(*    binary floating point.                                               *)
(*  - Python None is the empty tuple and any other value v is <<v>>.       *)
(*  - A dict is a function whose DOMAIN is its key set.                    *)
(*  - A numpy array is [shape, data]: shape is the common length n of all  *)
(*    its axes and data maps every index tuple over 0..n-1 to a float.     *)
(*  - An exception leaving a method is recorded in result.exc.             *)
(*  - A file object is "open" or "closed"; handles lists, in the order of  *)
(*    their opening, the file objects the latest call opened, as they are  *)
(*    when the call ends.                                                  *)
(* The HDF5 container written by save() is outside the model.              *)
(***************************************************************************)
EXTENDS Integers, Sequences, FiniteSets, TLC

VARIABLES
  relativistic,          \* self.relativistic
  refcounting,           \* the interpreter frees an object, and so closes a
                         \* file, at the moment its last reference goes
  FCIDUMP,               \* the file "FCIDUMP_" + self.name
  out_file,              \* the file self.name + ".out"
  E_core,                \* self.E_core
  spinor,                \* self.spinor
  one_body_int,          \* self.one_body_int
  two_body_int,          \* self.two_body_int
  hf_energy,             \* self.hf_energy
  mp2_energy,            \* self.mp2_energy
  ccsd_energy,           \* self.ccsd_energy
  n_orbitals,            \* self.n_orbitals
  n_qubits,              \* self.n_qubits
  one_body_coeff,        \* self.one_body_coeff
  two_body_coeff,        \* self.two_body_coeff
  molecular_hamiltonian, \* self.molecular_hamiltonian
  result,                \* outcome of the latest call: [op, exc, value]
  handles                \* file objects opened by the latest call

vars == <<relativistic, FCIDUMP, out_file, E_core, spinor, one_body_int,
          two_body_int, hf_energy, mp2_energy, ccsd_energy, n_orbitals,
          n_qubits, one_body_coeff, two_body_coeff, molecular_hamiltonian,
          result, refcounting, handles>>

integral_fields == <<E_core, spinor, one_body_int, two_body_int>>
energy_fields == <<hf_energy, mp2_energy, ccsd_energy>>
saved_fields == <<n_orbitals, n_qubits, one_body_coeff, two_body_coeff,
                  molecular_hamiltonian>>
environment == <<relativistic, refcounting, FCIDUMP, out_file>>

-----------------------------------------------------------------------------
(* Python values *)

None == << >>
Some(v) == <<v>>
Val(o) == o[1]

EmptyDict == [k \in {} |-> 0]

\* Faulty variant of Put: a key already stored keeps its first value.
PutKeepFirst(d, k, v) ==
  [x \in (DOMAIN d) \cup {k} |-> IF x \in DOMAIN d THEN d[x] ELSE v]

\* d[k] = v
Put(d, k, v) == [x \in (DOMAIN d) \cup {k} |-> IF x = k THEN v ELSE d[x]]
len(d) == Cardinality(DOMAIN d)

Abs(x) == IF x < 0 THEN -x ELSE x

\* EQ_TOLERANCE of openfermion.config (1e-8), in units.
EQ_TOLERANCE == 4
UnitsPerOne == 100000000 * EQ_TOLERANCE

-----------------------------------------------------------------------------
(* Tokens: int() and float() of a token *)

IntTokens == <<"0", "1", "2", "3", "4", "5", "6", "7">>
DecimalTokens ==
  { <<"0.4", 160000000>>, <<"1.5", 600000000>>, <<"-0.3", -120000000>>,
    <<"0.1", 40000000>>,  <<"5e-9", 2>>,        <<"-5e-9", -2>>,
    <<"1e-8", 4>>,        <<"2e-8", 8>>,        <<"-2e-8", -8>> }

\* int(token) succeeds
IsInt(t) == \E i \in 1..Len(IntTokens) : IntTokens[i] = t
IntOf(t) == (CHOOSE i \in 1..Len(IntTokens) : IntTokens[i] = t) - 1
\* float(token) succeeds
IsFloat(t) == IsInt(t) \/ \E d \in DecimalTokens : d[1] = t
FloatOf(t) ==
  IF IsInt(t) THEN IntOf(t) * UnitsPerOne
  ELSE (CHOOSE d \in DecimalTokens : d[1] = t)[2]

-----------------------------------------------------------------------------
(* get_integrals_FCIDUMP: the reading of the dump *)

\* "&END" in line
HasEnd(line) == \E i \in 1..Len(line) : line[i] = "&END"

\* start_reading: the number of lines consumed by the header loop, the line
\* holding &END included; every line when no line holds it.
RECURSIVE HeaderLoop(_, _)
HeaderLoop(lines, start_reading) ==
  IF start_reading >= Len(lines) THEN start_reading
  ELSE IF HasEnd(lines[start_reading + 1]) THEN start_reading + 1
  ELSE HeaderLoop(lines, start_reading + 1)

\* listed_values: the token lists of the lines that follow the header.
ListedValues(lines) ==
  LET start_reading == HeaderLoop(lines, 0)
  IN  SubSeq(lines, start_reading + 1, Len(lines))

\* The exception one row raises, "" when it raises none.  The four indices
\* are converted first, in order, and the value last.
RowError(row) ==
  IF Len(row) < 2 THEN "IndexError"
  ELSE IF ~IsInt(row[2]) THEN "ValueError"
  ELSE IF Len(row) < 3 THEN "IndexError"
  ELSE IF ~IsInt(row[3]) THEN "ValueError"
  ELSE IF Len(row) < 4 THEN "IndexError"
  ELSE IF ~IsInt(row[4]) THEN "ValueError"
  ELSE IF Len(row) < 5 THEN "IndexError"
  ELSE IF ~IsInt(row[5]) THEN "ValueError"
  ELSE IF ~IsFloat(row[1]) THEN "ValueError"
  ELSE ""

\* Faulty variant of Classify: the second index is tested before the third
\* and fourth, so a record with second index 0 is never a two-body one.
ClassifySecondIndexFirst(a_1, a_2, a_3, a_4) ==
  IF a_2 = 0
  THEN IF a_1 = 0 THEN "core" ELSE "spinor"
  ELSE IF a_4 = 0 /\ a_3 = 0 THEN "one_body" ELSE "two_body"

\* The class of a record by its indices.
Classify(a_1, a_2, a_3, a_4) ==
  IF a_4 = 0 /\ a_3 = 0
  THEN IF a_2 = 0
       THEN IF a_1 = 0 THEN "core" ELSE "spinor"
       ELSE "one_body"
  ELSE "two_body"

\* The effect of one well-formed row on the four parsed fields.
StoreRow(st, row) ==
  LET a_1 == IntOf(row[2])
      a_2 == IntOf(row[3])
      a_3 == IntOf(row[4])
      a_4 == IntOf(row[5])
      v == FloatOf(row[1])
      class == Classify(a_1, a_2, a_3, a_4)
  IN  CASE class = "core" -> [st EXCEPT !.E_core = v]
        [] class = "spinor" -> [st EXCEPT !.spinor = Put(@, a_1, v)]
        [] class = "one_body" ->
             [st EXCEPT !.one_body_int = Put(@, <<a_1, a_2>>, v)]
        [] class = "two_body" ->
             [st EXCEPT !.two_body_int = Put(@, <<a_1, a_2, a_3, a_4>>, v)]

\* Faulty variant of ResetFields: what an earlier reading stored is kept.
KeepFields(self) ==
  [E_core |-> IF self.E_core = None THEN 0 ELSE Val(self.E_core),
   spinor |-> IF self.spinor = None THEN EmptyDict ELSE Val(self.spinor),
   one_body_int |-> IF self.one_body_int = None THEN EmptyDict
                    ELSE Val(self.one_body_int),
   two_body_int |-> IF self.two_body_int = None THEN EmptyDict
                    ELSE Val(self.two_body_int),
   exc |-> ""]

\* The fields a reading starts from, whatever `self` held: self.E_core = 0
\* and three empty dicts.
ResetFields(self) ==
  [E_core |-> 0, spinor |-> EmptyDict, one_body_int |-> EmptyDict,
   two_body_int |-> EmptyDict, exc |-> ""]

\* The loop over the rows; it stops at the first row that raises.
RECURSIVE RowLoop(_, _, _)
RowLoop(st, listed_values, row) ==
  IF row > Len(listed_values) THEN st
  ELSE IF RowError(listed_values[row]) # ""
       THEN [st EXCEPT !.exc = RowError(listed_values[row])]
       ELSE RowLoop(StoreRow(st, listed_values[row]), listed_values, row + 1)

\* The parsed fields and the exception, if any, of one reading of an
\* existing dump.
ReadDump(self, lines) == RowLoop(ResetFields(self), ListedValues(lines), 1)

\* Faulty variant of MissingFile: the exception of a malformed record.
MissingFileAsValueError == "ValueError"

\* The exception raised for an absent dump or log.
MissingFile == "FileNotFoundError"

-----------------------------------------------------------------------------
(* get_energies: the scan of the log *)

\* The label texts searched for; a token equal to a label stands for an
\* occurrence of that text in the line.
LabelHF == "Total energy                             :"
LabelMP2 == "@ Total MP2 energy"
LabelCCSD == "@ Total CCSD energy"

\* re.search(label, line)
Matches(label, line) == \E i \in 1..Len(line) : line[i] = label

\* line.rsplit(None, 1)[-1]: the last whitespace-delimited token of a line;
\* for a line that ends with a label text it is the last word of that text.
LastToken(line) ==
  LET t == line[Len(line)]
  IN  IF t = LabelHF THEN ":"
      ELSE IF t \in {LabelMP2, LabelCCSD} THEN "energy"
      ELSE t

\* Faulty variant of ScanLine: a label already found is not assigned again.
ScanLineKeepFirst(current, label, line) ==
  IF Matches(label, line) /\ current = None
  THEN Some(LastToken(line))
  ELSE current

\* One pass of the loop body for one label: a matching line assigns.
ScanLine(current, label, line) ==
  IF Matches(label, line) THEN Some(LastToken(line)) ELSE current

RECURSIVE ScanLoop(_, _, _, _)
ScanLoop(current, label, lines, i) ==
  IF i > Len(lines) THEN current
  ELSE ScanLoop(ScanLine(current, label, lines[i]), label, lines, i + 1)

ScanLog(label, lines) == ScanLoop(None, label, lines, 1)

-----------------------------------------------------------------------------
(* get_molecular_hamiltonian: the two coefficient tensors *)

Range(n) == 0..(n - 1)

\* numpy.zeros((n, n)) and numpy.zeros((n, n, n, n))
zeros2(n) == [shape |-> n, data |-> [p \in Range(n) |-> [q \in Range(n) |-> 0]]]
zeros4(n) ==
  [shape |-> n,
   data |-> [p \in Range(n) |-> [q \in Range(n) |->
              [r \in Range(n) |-> [s \in Range(n) |-> 0]]]]]

\* array[cell], for a cell <<p,q>> or <<p,q,r,s>>
At2(array, cell) == array.data[cell[1]][cell[2]]
At4(array, cell) == array.data[cell[1]][cell[2]][cell[3]][cell[4]]

\* array[cell] = v
SetCell2(array, cell, v) == [array EXCEPT !.data[cell[1]][cell[2]] = v]
SetCell4(array, cell, v) ==
  [array EXCEPT !.data[cell[1]][cell[2]][cell[3]][cell[4]] = v]

\* value / 2.0
Half(v) == v \div 2

\* n_qubits, the length of every axis of both tensors
TensorDimension(one_body_integrals) == len(one_body_integrals)

\* The cell of two_body_coefficients written for the dump key (p,q,r,s),
\* all 0-based here.
TargetCell(p, q, r, s) == <<p, r, s, q>>

(* Relativistic branch: the four nested loops. *)

RelTwoBodyWrite(two, tb, p, q, r, s) ==
  IF <<p + 1, q + 1, r + 1, s + 1>> \in DOMAIN tb /\ relativistic = TRUE
  THEN SetCell4(two, TargetCell(p, q, r, s),
               Half(tb[<<p + 1, q + 1, r + 1, s + 1>>]))
  ELSE two

RelOneBodyWrite(one, ob, p, q) ==
  IF <<p + 1, q + 1>> \in DOMAIN ob
  THEN SetCell2(one, <<p, q>>, ob[<<p + 1, q + 1>>])
  ELSE one

RECURSIVE RelLoopS(_, _, _, _, _, _)
RelLoopS(two, tb, p, q, r, s) ==
  IF s >= two.shape THEN two
  ELSE RelLoopS(RelTwoBodyWrite(two, tb, p, q, r, s), tb, p, q, r, s + 1)

RECURSIVE RelLoopR(_, _, _, _, _)
RelLoopR(two, tb, p, q, r) ==
  IF r >= two.shape THEN two
  ELSE RelLoopR(RelLoopS(two, tb, p, q, r, 0), tb, p, q, r + 1)

RECURSIVE RelLoopQ(_, _, _, _, _)
RelLoopQ(acc, ob, tb, p, q) ==
  IF q >= acc.one.shape THEN acc
  ELSE RelLoopQ([one |-> RelOneBodyWrite(acc.one, ob, p, q),
                 two |-> RelLoopR(acc.two, tb, p, q, 0)], ob, tb, p, q + 1)

RECURSIVE RelLoopP(_, _, _, _)
RelLoopP(acc, ob, tb, p) ==
  IF p >= acc.one.shape THEN acc
  ELSE RelLoopP(RelLoopQ(acc, ob, tb, p, 0), ob, tb, p + 1)

(* Restricted branch, one-body loops: every stored key is mirrored. *)

\* Faulty variant of MirrorWrite: the transposed cell is not assigned.
MirrorWriteOneCell(one, ob, p, q) ==
  IF <<p + 1, q + 1>> \in DOMAIN ob
  THEN SetCell2(one, <<p, q>>, ob[<<p + 1, q + 1>>])
  ELSE one

\* if (p+1, q+1) in one_body_integrals: both cells take its value.
MirrorWrite(one, ob, p, q) ==
  IF <<p + 1, q + 1>> \in DOMAIN ob
  THEN SetCell2(SetCell2(one, <<p, q>>, ob[<<p + 1, q + 1>>]),
                <<q, p>>, ob[<<p + 1, q + 1>>])
  ELSE one

RECURSIVE MirrorLoopQ(_, _, _, _)
MirrorLoopQ(one, ob, p, q) ==
  IF q >= one.shape THEN one
  ELSE MirrorLoopQ(MirrorWrite(one, ob, p, q), ob, p, q + 1)

RECURSIVE MirrorLoopP(_, _, _)
MirrorLoopP(one, ob, p) ==
  IF p >= one.shape THEN one
  ELSE MirrorLoopP(MirrorLoopQ(one, ob, p, 0), ob, p + 1)

(* Restricted branch, "permutation symmetry" loops over n_qubits//2. *)

\* Faulty variant of PermutationCells: the four cells of the exchanged
\* electron pairs are left out.
PermutationCellsOnePair(p, q, r, s) ==
  << <<2*p, 2*r, 2*s, 2*q>>, <<2*q, 2*r, 2*s, 2*p>>,
     <<2*p, 2*s, 2*r, 2*q>>, <<2*q, 2*s, 2*r, 2*p>> >>

\* Faulty variant of PermutationCells: the last two indices of the second
\* cell are exchanged.
PermutationCellsMisplaced(p, q, r, s) ==
  << <<2*p, 2*r, 2*s, 2*q>>, <<2*q, 2*r, 2*p, 2*s>>,
     <<2*p, 2*s, 2*r, 2*q>>, <<2*q, 2*s, 2*r, 2*p>>,
     <<2*r, 2*p, 2*q, 2*s>>, <<2*s, 2*p, 2*q, 2*r>>,
     <<2*r, 2*q, 2*p, 2*s>>, <<2*s, 2*q, 2*p, 2*r>> >>

\* The eight cells written for the spatial indices (p,q,r,s), in the order
\* of the eight assignments.
PermutationCells(p, q, r, s) ==
  << <<2*p, 2*r, 2*s, 2*q>>, <<2*q, 2*r, 2*s, 2*p>>,
     <<2*p, 2*s, 2*r, 2*q>>, <<2*q, 2*s, 2*r, 2*p>>,
     <<2*r, 2*p, 2*q, 2*s>>, <<2*s, 2*p, 2*q, 2*r>>,
     <<2*r, 2*q, 2*p, 2*s>>, <<2*s, 2*q, 2*p, 2*r>> >>

\* The dump key looked up for the spatial indices (p,q,r,s).
SpatialKey(p, q, r, s) == <<2*p + 1, 2*q + 1, 2*r + 1, 2*s + 1>>

RECURSIVE WriteCells(_, _, _, _)
WriteCells(two, cells, v, i) ==
  IF i > Len(cells) THEN two
  ELSE WriteCells(SetCell4(two, cells[i], v), cells, v, i + 1)

PermutationWrite(two, tb, p, q, r, s) ==
  IF SpatialKey(p, q, r, s) \in DOMAIN tb
  THEN WriteCells(two, PermutationCells(p, q, r, s),
                  Half(tb[SpatialKey(p, q, r, s)]), 1)
  ELSE two

RECURSIVE PermLoopS(_, _, _, _, _, _)
PermLoopS(two, tb, p, q, r, s) ==
  IF s >= two.shape \div 2 THEN two
  ELSE PermLoopS(PermutationWrite(two, tb, p, q, r, s), tb, p, q, r, s + 1)

RECURSIVE PermLoopR(_, _, _, _, _)
PermLoopR(two, tb, p, q, r) ==
  IF r >= two.shape \div 2 THEN two
  ELSE PermLoopR(PermLoopS(two, tb, p, q, r, 0), tb, p, q, r + 1)

RECURSIVE PermLoopQ(_, _, _, _)
PermLoopQ(two, tb, p, q) ==
  IF q >= two.shape \div 2 THEN two
  ELSE PermLoopQ(PermLoopR(two, tb, p, q, 0), tb, p, q + 1)

RECURSIVE PermLoopP(_, _, _)
PermLoopP(two, tb, p) ==
  IF p >= two.shape \div 2 THEN two
  ELSE PermLoopP(PermLoopQ(two, tb, p, 0), tb, p + 1)

(* Restricted branch, "restricted calculation" loops over n_qubits//2. *)

\* Faulty variant of SpinCells: the last index of the third cell is even.
SpinCellsEvenLast(p, q, r, s) ==
  << <<2*p + 1, 2*q, 2*r, 2*s + 1>>,
     <<2*p, 2*q + 1, 2*r + 1, 2*s>>,
     <<2*p + 1, 2*q + 1, 2*r + 1, 2*s>> >>

\* Faulty variant of SpinCells: the third index of the first cell is odd.
SpinCellsOddThird(p, q, r, s) ==
  << <<2*p + 1, 2*q, 2*r + 1, 2*s>>,
     <<2*p, 2*q + 1, 2*r + 1, 2*s>>,
     <<2*p + 1, 2*q + 1, 2*r + 1, 2*s + 1>> >>

\* The three cells assigned from the cell [2p,2q,2r,2s].
SpinCells(p, q, r, s) ==
  << <<2*p + 1, 2*q, 2*r, 2*s + 1>>,
     <<2*p, 2*q + 1, 2*r + 1, 2*s>>,
     <<2*p + 1, 2*q + 1, 2*r + 1, 2*s + 1>> >>

SpinSource(p, q, r, s) == <<2*p, 2*q, 2*r, 2*s>>

SpinWrite(two, p, q, r, s) ==
  LET c == SpinCells(p, q, r, s)
      t1 == SetCell4(two, c[1], At4(two, SpinSource(p, q, r, s)))
      t2 == SetCell4(t1, c[2], At4(t1, SpinSource(p, q, r, s)))
  IN  SetCell4(t2, c[3], At4(t2, SpinSource(p, q, r, s)))

RECURSIVE SpinLoopS(_, _, _, _, _)
SpinLoopS(two, p, q, r, s) ==
  IF s >= two.shape \div 2 THEN two
  ELSE SpinLoopS(SpinWrite(two, p, q, r, s), p, q, r, s + 1)

RECURSIVE SpinLoopR(_, _, _, _)
SpinLoopR(two, p, q, r) ==
  IF r >= two.shape \div 2 THEN two
  ELSE SpinLoopR(SpinLoopS(two, p, q, r, 0), p, q, r + 1)

RECURSIVE SpinLoopQ(_, _, _)
SpinLoopQ(two, p, q) ==
  IF q >= two.shape \div 2 THEN two
  ELSE SpinLoopQ(SpinLoopR(two, p, q, 0), p, q + 1)

RECURSIVE SpinLoopP(_, _)
SpinLoopP(two, p) ==
  IF p >= two.shape \div 2 THEN two
  ELSE SpinLoopP(SpinLoopQ(two, p, 0), p + 1)

(* Truncation. *)

\* Faulty variant of TruncateAt: the sign of the entry is not dropped.
TruncateSigned(tolerance, x) == IF x < tolerance THEN 0 ELSE x

\* An entry whose magnitude is below the tolerance becomes 0.
TruncateAt(tolerance, x) == IF Abs(x) < tolerance THEN 0 ELSE x

TruncateCell(x) == TruncateAt(EQ_TOLERANCE, x)
Truncate2(array) ==
  [array EXCEPT !.data = [p \in Range(array.shape) |->
     [q \in Range(array.shape) |-> TruncateCell(array.data[p][q])]]]
Truncate4(array) ==
  [array EXCEPT !.data = [p \in Range(array.shape) |->
     [q \in Range(array.shape) |-> [r \in Range(array.shape) |->
       [s \in Range(array.shape) |-> TruncateCell(array.data[p][q][r][s])]]]]]

(* The tensors before truncation, the tensors returned. *)

Untruncated(ob, tb) ==
  LET n == TensorDimension(ob)
      start == [one |-> zeros2(n), two |-> zeros4(n)]
  IN  IF relativistic
      THEN RelLoopP(start, ob, tb, 0)
      ELSE [one |-> MirrorLoopP(start.one, ob, 0),
            two |-> SpinLoopP(PermLoopP(start.two, tb, 0), 0)]

Coefficients(ob, tb) ==
  LET filled == Untruncated(ob, tb)
  IN  [one |-> Truncate2(filled.one), two |-> Truncate4(filled.two)]

\* InteractionOperator(E_core, one_body_coefficients, two_body_coefficients)
InteractionOperator(constant, one_body_tensor, two_body_tensor) ==
  [constant |-> constant, one_body_tensor |-> one_body_tensor,
   two_body_tensor |-> two_body_tensor, n_qubits |-> one_body_tensor.shape]

\* count_qubits(molecular_hamiltonian)
count_qubits(operator) == operator.n_qubits

-----------------------------------------------------------------------------
(* The methods, as functions of the files and of the fields they read *)

\* The file object of `sum(1 for line in open(...))`: no statement closes
\* it; it is closed when the interpreter frees it, which is before the call
\* ends only under reference counting.
LineCountHandle == IF refcounting THEN "closed" ELSE "open"

\* The file object of a `with open(...) as f:` block: closed when the block
\* is left, by its end or by an exception.
WithHandle == "closed"

\* get_integrals_FCIDUMP called with the parsed fields `self`: the fields
\* after the call, the exception raised, the value returned and the file
\* objects opened.
IntegralsCall(self) ==
  IF FCIDUMP.exists
  THEN LET st == ReadDump(self, FCIDUMP.lines)
           fields == [E_core |-> Some(st.E_core),
                      spinor |-> Some(st.spinor),
                      one_body_int |-> Some(st.one_body_int),
                      two_body_int |-> Some(st.two_body_int)]
       IN  [fields |-> fields, exc |-> st.exc,
            value |-> IF st.exc = ""
                      THEN Some(<<st.E_core, st.spinor, st.one_body_int,
                                  st.two_body_int>>)
                      ELSE None,
            handles |-> <<LineCountHandle, WithHandle>>]
  ELSE [fields |-> self, exc |-> MissingFile, value |-> None,
        handles |-> << >>]

\* get_energies: the three energy fields after the call and the exception.
EnergiesCall ==
  IF out_file.exists
  THEN LET hf == ScanLog(LabelHF, out_file.lines)
           mp2 == ScanLog(LabelMP2, out_file.lines)
           ccsd == ScanLog(LabelCCSD, out_file.lines)
       IN  [hf_energy |-> hf, mp2_energy |-> mp2, ccsd_energy |-> ccsd,
            exc |-> "", value |-> Some(<<hf, mp2, ccsd>>),
            handles |-> <<WithHandle>>]
  ELSE [hf_energy |-> None, mp2_energy |-> None, ccsd_energy |-> None,
        exc |-> MissingFile, value |-> None, handles |-> << >>]

\* get_molecular_hamiltonian called with the parsed fields `self`.
HamiltonianCall(self) ==
  LET parsed == IntegralsCall(self)
  IN  IF parsed.exc # ""
      THEN [fields |-> parsed.fields, exc |-> parsed.exc, value |-> None,
            handles |-> parsed.handles]
      ELSE LET ret == Val(parsed.value)
               c == Coefficients(ret[3], ret[4])
           IN  [fields |-> parsed.fields, exc |-> "",
                value |-> Some(<<InteractionOperator(ret[1], c.one, c.two),
                                 c.one, c.two>>),
                handles |-> parsed.handles]

CurrentIntegralFields ==
  [E_core |-> E_core, spinor |-> spinor, one_body_int |-> one_body_int,
   two_body_int |-> two_body_int]

SetIntegralFields(fields) ==
  /\ E_core' = fields.E_core
  /\ spinor' = fields.spinor
  /\ one_body_int' = fields.one_body_int
  /\ two_body_int' = fields.two_body_int

SetEnergyFields(e) ==
  /\ hf_energy' = e.hf_energy
  /\ mp2_energy' = e.mp2_energy
  /\ ccsd_energy' = e.ccsd_energy

Outcome(op, call) == [op |-> op, exc |-> call.exc, value |-> call.value]

-----------------------------------------------------------------------------
(* Actions: one per public method *)

get_integrals_FCIDUMP ==
  \E call \in {IntegralsCall(CurrentIntegralFields)} :
    /\ SetIntegralFields(call.fields)
    /\ result' = Outcome("get_integrals_FCIDUMP", call)
    /\ handles' = call.handles
    /\ UNCHANGED <<environment, energy_fields, saved_fields>>

get_energies ==
  \E call \in {EnergiesCall} :
    /\ SetEnergyFields(call)
    /\ result' = Outcome("get_energies", call)
    /\ handles' = call.handles
    /\ UNCHANGED <<environment, integral_fields, saved_fields>>

get_molecular_hamiltonian ==
  \E call \in {HamiltonianCall(CurrentIntegralFields)} :
    /\ SetIntegralFields(call.fields)
    /\ result' = Outcome("get_molecular_hamiltonian", call)
    /\ handles' = call.handles
    /\ UNCHANGED <<environment, energy_fields, saved_fields>>

\* save: get_energies(), get_integrals_FCIDUMP(), get_molecular_hamiltonian()
\* in turn, then the assignments of the derived fields.  An exception of a
\* callee leaves save at once, with the fields assigned so far.
SaveFailed(exc) ==
  /\ result' = [op |-> "save", exc |-> exc, value |-> None]
  /\ UNCHANGED saved_fields

save ==
  \E energies \in {EnergiesCall} :
    /\ SetEnergyFields(energies)
    /\ UNCHANGED environment
    /\ IF energies.exc # ""
       THEN /\ SaveFailed(energies.exc)
            /\ handles' = energies.handles
            /\ UNCHANGED integral_fields
       ELSE \E first \in {IntegralsCall(CurrentIntegralFields)} :
              IF first.exc # ""
              THEN /\ SaveFailed(first.exc)
                   /\ handles' = energies.handles \o first.handles
                   /\ SetIntegralFields(first.fields)
              ELSE \E second \in {HamiltonianCall(first.fields)} :
                     /\ SetIntegralFields(second.fields)
                     /\ handles' = energies.handles \o first.handles
                                     \o second.handles
                     /\ IF second.exc # ""
                        THEN SaveFailed(second.exc)
                        ELSE \E ret \in {Val(second.value)} :
                               /\ molecular_hamiltonian' = Some(ret[1])
                               /\ one_body_coeff' = Some(ret[2])
                               /\ two_body_coeff' = Some(ret[3])
                               /\ n_qubits' = Some(count_qubits(ret[1]))
                               /\ n_orbitals' =
                                    Some(len(Val(second.fields.spinor)))
                               /\ result' = [op |-> "save", exc |-> "",
                                             value |-> None]

Next ==
  \/ get_integrals_FCIDUMP
  \/ get_energies
  \/ get_molecular_hamiltonian
  \/ save

-----------------------------------------------------------------------------
(* Initial states: the object as __init__ leaves it, beside given files *)

InitObject ==
  /\ E_core = None
  /\ spinor = None
  /\ one_body_int = None
  /\ two_body_int = None
  /\ hf_energy = None
  /\ mp2_energy = None
  /\ ccsd_energy = None
  /\ n_orbitals = None
  /\ n_qubits = None
  /\ one_body_coeff = None
  /\ two_body_coeff = None
  /\ molecular_hamiltonian = None
  /\ result = [op |-> "__init__", exc |-> "", value |-> None]
  /\ handles = << >>

File(lines) == [exists |-> TRUE, lines |-> lines]
Absent == [exists |-> FALSE, lines |-> << >>]

\* Sequences over S of length at most n.
RECURSIVE SeqsUpTo(_, _)
SeqsUpTo(S, n) ==
  IF n = 0 THEN { << >> }
  ELSE LET shorter == SeqsUpTo(S, n - 1)
       IN  shorter \cup { Append(q, x) : q \in shorter, x \in S }

\* The elements of a finite set in some fixed order.
RECURSIVE SetToSeq(_)
SetToSeq(S) ==
  IF S = {} THEN << >>
  ELSE LET x == CHOOSE y \in S : TRUE IN <<x>> \o SetToSeq(S \ {x})

Header == << <<"&FCI", "NORB=", "2,">>, <<"ISYM=", "1,">>, <<"&END">> >>

\* A data line of the dump: a value token and four index numbers.
Record(v, a, b, c, d) ==
  <<v, IntTokens[a + 1], IntTokens[b + 1], IntTokens[c + 1], IntTokens[d + 1]>>

\* A log as the program writes it when all three calculations ran.
SampleLog ==
  File(<< <<"SCF", "converged">>, <<LabelHF, "-1.117">>,
          <<LabelMP2, ":", "-1.130">>, <<LabelCCSD, ":", "-1.137">> >>)

\* Sets of <<key, value token>> with no key stored twice, at most n keys.
RECURSIVE Entries(_, _, _)
Entries(keys, values, n) ==
  IF n = 0 THEN { {} }
  ELSE LET fewer == Entries(keys, values, n - 1)
       IN  fewer \cup
           UNION { { E \cup {<<k, v>>} : k \in keys \ { e[1] : e \in E },
                                         v \in values } : E \in fewer }

\* The orbital-energy records of orbitals 1..m.
SpinorRecords(m) == [i \in 1..m |-> Record("-0.3", i, 0, 0, 0)]

OneBodyRecords(E) ==
  LET q == SetToSeq(E)
  IN  [i \in 1..Len(q) |-> Record(q[i][2], q[i][1][1], q[i][1][2], 0, 0)]

TwoBodyRecords(E) ==
  LET q == SetToSeq(E)
  IN  [i \in 1..Len(q) |->
         Record(q[i][2], q[i][1][1], q[i][1][2], q[i][1][3], q[i][1][4])]

\* A well-formed dump: core energy, m orbital energies, the one-body
\* entries ob and the two-body entries tb.
Dump(m, ob, tb) ==
  File(Header \o << Record("1.5", 0, 0, 0, 0) >> \o SpinorRecords(m)
       \o OneBodyRecords(ob) \o TwoBodyRecords(tb))

-----------------------------------------------------------------------------
(* Specification Spec: any short dump, well formed or not, or none *)

MaxRecords == 2

\* The sixteen zero/non-zero index patterns, a second value for one record
\* of each class, and the malformed lines: too few tokens, too many, a value
\* that is no number, an index that is no integer.
ParseLines ==
  { Record("0.4", a, b, c, d) : a, b, c, d \in {0, 1} }
  \cup { Record("0.1", 0, 0, 0, 0), Record("0.1", 1, 0, 0, 0),
         Record("0.1", 1, 1, 0, 0), Record("0.1", 1, 1, 1, 1) }
  \cup { <<"0.4", "1", "1", "0">>, <<"0.4", "1", "1", "0", "0", "1">>,
         <<"x", "1", "1", "0", "0">>, <<"0.4", "1", "0.4", "0", "0">> }

Init ==
  /\ InitObject
  /\ refcounting = TRUE
  /\ relativistic \in BOOLEAN
  /\ out_file = SampleLog
  /\ \/ FCIDUMP = Absent
     \/ \E rows \in SeqsUpTo(ParseLines, MaxRecords) :
          FCIDUMP = File(Header \o rows)
     \/ \E rows \in SeqsUpTo(ParseLines, 1) : FCIDUMP = File(rows)

Spec == Init /\ [][Next]_vars

-----------------------------------------------------------------------------
(* Specification SpecLog: any short log, or none, beside a fixed dump *)

MaxLogLines == 3

LogLines ==
  { <<LabelHF, "-1.117">>, <<LabelHF, "-1.2">>,
    <<LabelMP2, ":", "-1.130">>, <<LabelMP2, ":", "-1.2">>,
    <<LabelCCSD, ":", "-1.137">>, <<LabelMP2, LabelCCSD, "-1.3">>,
    <<"SCF", "converged">>, <<"E(HF)", LabelHF>>, << >> }

InitLog ==
  /\ InitObject
  /\ refcounting = TRUE
  /\ relativistic = TRUE
  /\ FCIDUMP = Dump(2, { <<<<1, 1>>, "0.4">>, <<<<2, 2>>, "0.4">> },
                    { <<<<1, 1, 1, 1>>, "0.1">> })
  /\ \/ out_file = Absent
     \/ \E lines \in SeqsUpTo(LogLines, MaxLogLines) : out_file = File(lines)

SpecLog == InitLog /\ [][Next]_vars

-----------------------------------------------------------------------------
(* Specification SpecRelativistic: well-formed dumps of a relativistic run *)

RelOrbitals == 2
MaxRelOneBody == 2
MaxRelTwoBody == 1

RelOneBodyKeys == ({1, 2} \X {1, 2}) \cup { <<1, 3>> }
RelTwoBodyKeys ==
  { <<1, 1, 1, 1>>, <<1, 1, 1, 2>>, <<1, 2, 1, 1>>, <<2, 1, 1, 2>>,
    <<2, 2, 2, 2>>, <<1, 1, 3, 1>> }
RelValues == {"0.4", "5e-9"}

InitRelativistic ==
  /\ InitObject
  /\ refcounting = TRUE
  /\ relativistic = TRUE
  /\ out_file = SampleLog
  /\ \E ob \in Entries(RelOneBodyKeys, RelValues, MaxRelOneBody) :
       \E tb \in Entries(RelTwoBodyKeys, RelValues, MaxRelTwoBody) :
         FCIDUMP = Dump(RelOrbitals, ob, tb)

SpecRelativistic == InitRelativistic /\ [][Next]_vars

-----------------------------------------------------------------------------
(* Specification SpecRestricted: well-formed dumps of a restricted run,   *)
(* with n diagonal one-body records for n spin orbitals                   *)

MaxDimension == 5
MaxTwoBody == 2

DiagonalEntries(n) == { <<<<i, i>>, "0.4">> : i \in 1..n }
RestrictedTwoBodyKeys ==
  { <<1, 1, 1, 1>>, <<1, 1, 3, 3>>, <<3, 3, 1, 1>>, <<1, 3, 1, 3>>,
    <<3, 1, 1, 3>>, <<1, 1, 1, 3>>, <<2, 2, 2, 2>>, <<1, 1, 5, 5>> }
RestrictedValues == {"0.4", "5e-9"}

InitRestricted ==
  /\ InitObject
  /\ refcounting = TRUE
  /\ relativistic = FALSE
  /\ out_file = SampleLog
  /\ \E n \in (MaxDimension - 1)..MaxDimension :
       \E tb \in Entries(RestrictedTwoBodyKeys, RestrictedValues, MaxTwoBody) :
         FCIDUMP = Dump(n \div 2, DiagonalEntries(n), tb)

SpecRestricted == InitRestricted /\ [][Next]_vars

-----------------------------------------------------------------------------
(* Specification SpecOneBody: well-formed dumps of either mode whose       *)
(* one-body keys include a transposed pair and whose values, of both      *)
(* signs, lie below, at and above the tolerance                           *)

MaxOneBody == 2

OneBodyKeys == { <<1, 1>>, <<1, 2>>, <<2, 1>>, <<1, 3>> }
OneBodyValues == {"0.4", "5e-9", "1e-8", "-2e-8"}
TwoBodyValues == {"0.4", "5e-9", "2e-8", "-2e-8"}

InitOneBody ==
  /\ InitObject
  /\ refcounting = TRUE
  /\ relativistic \in BOOLEAN
  /\ out_file = SampleLog
  /\ \E ob \in Entries(OneBodyKeys, OneBodyValues, MaxOneBody) :
       \E tb \in Entries({ <<1, 1, 1, 1>> }, TwoBodyValues, 1) :
         FCIDUMP = Dump(2, ob, tb)

SpecOneBody == InitOneBody /\ [][Next]_vars

-----------------------------------------------------------------------------
(* Specification SpecRerun: the files change between the calls.  The dump  *)
(* and the log are written by the external program, which run_dirac        *)
(* invokes, and removed by its delete_FCIDUMP and delete_output options;   *)
(* the object reads whatever is under the two names when a method runs.    *)
(* The interpreter is either one that counts references or one that does   *)
(* not; the specifications above are of the former.                        *)

DumpA ==
  Dump(2, { <<<<1, 1>>, "0.4">>, <<<<2, 2>>, "0.4">> },
       { <<<<1, 1, 1, 1>>, "0.1">> })

\* No core record, no orbital energy, and no key of DumpA but (1,1), which
\* has another value.
DumpB ==
  File(Header \o << Record("0.1", 1, 1, 0, 0), Record("0.4", 1, 2, 0, 0),
                    Record("0.4", 1, 2, 1, 1) >>)

\* A dump whose third record is malformed.
DumpC ==
  File(Header \o << Record("0.1", 0, 0, 0, 0), Record("0.1", 2, 1, 0, 0),
                    <<"x", "1", "1", "0", "0">>, Record("0.4", 1, 1, 0, 0) >>)

RerunDumps == {Absent, DumpA, DumpB, DumpC}
RerunLogs == {Absent, SampleLog}

\* The two files are replaced, each by a new version or by nothing.  No
\* call of the object is the latest event any more.
FilesReplaced ==
  /\ FCIDUMP' \in RerunDumps
  /\ out_file' \in RerunLogs
  /\ result' = [op |-> "FilesReplaced", exc |-> "", value |-> None]
  /\ handles' = << >>
  /\ UNCHANGED <<relativistic, refcounting, integral_fields, energy_fields,
                 saved_fields>>

InitRerun ==
  /\ InitObject
  /\ relativistic \in BOOLEAN
  /\ refcounting \in BOOLEAN
  /\ FCIDUMP \in RerunDumps
  /\ out_file \in RerunLogs

NextRerun == Next \/ FilesReplaced

SpecRerun == InitRerun /\ [][NextRerun]_vars

-----------------------------------------------------------------------------
(* Vocabulary of the properties *)

\* The latest call was `op` and returned normally.
Returned(op) == result.op = op /\ result.exc = ""

\* The tensors a normal return of get_molecular_hamiltonian carries.
ReturnedOneBody == Val(result.value)[2]
ReturnedTwoBody == Val(result.value)[3]

\* The data records of the dump: the lines after the first line that holds
\* &END, none when no line holds it.
DataRecords ==
  LET lines == FCIDUMP.lines
      ends == { i \in 1..Len(lines) : HasEnd(lines[i]) }
  IN  IF ends = {} THEN << >>
      ELSE SubSeq(lines, (CHOOSE i \in ends : \A j \in ends : i <= j) + 1,
                  Len(lines))

\* A record of exactly five tokens, a number and four integers.
StructurallyValid(row) ==
  /\ Len(row) = 5
  /\ IsFloat(row[1])
  /\ \A i \in 2..5 : IsInt(row[i])

Index(row, i) == IntOf(row[i + 1])
IsCoreRecord(row) == \A i \in 1..4 : Index(row, i) = 0
IsOrbitalRecord(row) ==
  Index(row, 1) # 0 /\ \A i \in 2..4 : Index(row, i) = 0
IsOneBodyRecord(row) ==
  Index(row, 2) # 0 /\ Index(row, 3) = 0 /\ Index(row, 4) = 0
IsTwoBodyRecord(row) == Index(row, 3) # 0 \/ Index(row, 4) # 0

RecordsWhere(Class(_)) ==
  { i \in 1..Len(DataRecords) : Class(DataRecords[i]) }

-----------------------------------------------------------------------------
(* Properties *)

\* C1 (as stated): in relativistic mode every key (p,q) of the parsed
\* one-body mapping has OneBodyCoefficients[p-1,q-1] = value, every key
\* (p,q,r,s) of the parsed two-body mapping has
\* TwoBodyCoefficients[p-1,r-1,s-1,q-1] = value/2 before truncation, no
\* stored key is skipped and every other cell is 0.
C1_RelativisticMappingTotal ==
  (relativistic /\ Returned("get_molecular_hamiltonian")) =>
    LET ob == Val(one_body_int)
        tb == Val(two_body_int)
        filled == Untruncated(ob, tb)
        n == filled.one.shape
    IN  /\ \A k \in DOMAIN ob :
             /\ k[1] - 1 \in Range(n) /\ k[2] - 1 \in Range(n)
             /\ At2(filled.one, <<k[1] - 1, k[2] - 1>>) = ob[k]
        /\ \A k \in DOMAIN tb :
             /\ \A i \in 1..4 : k[i] - 1 \in Range(n)
             /\ 2 * At4(filled.two, <<k[1] - 1, k[3] - 1, k[4] - 1, k[2] - 1>>)
                  = tb[k]
        /\ \A p, q \in Range(n) :
             <<p + 1, q + 1>> \notin DOMAIN ob => At2(filled.one, <<p, q>>) = 0
        /\ \A p, q, r, s \in Range(n) :
             <<p + 1, s + 1, q + 1, r + 1>> \notin DOMAIN tb
               => At4(filled.two, <<p, q, r, s>>) = 0

\* C2: after a successful reading of the dump, each of the three mappings
\* holds exactly the keys of the data records of its class (core: all four
\* indices 0; orbital energy: only the first non-zero; one-body: third and
\* fourth 0, second non-zero; two-body: third or fourth non-zero), with the
\* indices as read, every stored value is the value of a record of that
\* class with that key, and the core energy is the value of a core record,
\* or 0 when there is none.
C2_ClassificationByIndexPattern ==
  (Returned("get_integrals_FCIDUMP") \/ Returned("get_molecular_hamiltonian"))
  =>
    LET rows == DataRecords
        core == RecordsWhere(IsCoreRecord)
        orbital == RecordsWhere(IsOrbitalRecord)
        oneBody == RecordsWhere(IsOneBodyRecord)
        twoBody == RecordsWhere(IsTwoBodyRecord)
        Key2(i) == <<Index(rows[i], 1), Index(rows[i], 2)>>
        Key4(i) == <<Index(rows[i], 1), Index(rows[i], 2),
                     Index(rows[i], 3), Index(rows[i], 4)>>
    IN  /\ IF core = {} THEN Val(E_core) = 0
           ELSE \E i \in core : Val(E_core) = FloatOf(rows[i][1])
        /\ DOMAIN Val(spinor) = { Index(rows[i], 1) : i \in orbital }
        /\ \A a \in DOMAIN Val(spinor) :
             \E i \in orbital : /\ Index(rows[i], 1) = a
                                /\ Val(spinor)[a] = FloatOf(rows[i][1])
        /\ DOMAIN Val(one_body_int) = { Key2(i) : i \in oneBody }
        /\ \A k \in DOMAIN Val(one_body_int) :
             \E i \in oneBody : /\ Key2(i) = k
                                /\ Val(one_body_int)[k] = FloatOf(rows[i][1])
        /\ DOMAIN Val(two_body_int) = { Key4(i) : i \in twoBody }
        /\ \A k \in DOMAIN Val(two_body_int) :
             \E i \in twoBody : /\ Key4(i) = k
                                /\ Val(two_body_int)[k] = FloatOf(rows[i][1])

\* C2 witness: a dump read successfully whose records include a one-body
\* record with first index 0 and a two-body record with fourth index 0.
C2_Witness ==
  /\ Returned("get_integrals_FCIDUMP")
  /\ <<0, 1>> \in DOMAIN Val(one_body_int)
  /\ <<0, 0, 1, 0>> \in DOMAIN Val(two_body_int)

\* The eight cells C3 names for the spatial indices (p,q,r,s).
EightCells(p, q, r, s) ==
  { <<2*p, 2*r, 2*s, 2*q>>, <<2*q, 2*r, 2*s, 2*p>>, <<2*p, 2*s, 2*r, 2*q>>,
    <<2*q, 2*s, 2*r, 2*p>>, <<2*r, 2*p, 2*q, 2*s>>, <<2*s, 2*p, 2*q, 2*r>>,
    <<2*r, 2*q, 2*p, 2*s>>, <<2*s, 2*q, 2*p, 2*r>> }

\* C3: in restricted mode, for all spatial indices p,q,r,s below n//2 the
\* eight even-index cells of the permutation-symmetry step hold one value,
\* right after that step and in the returned tensor, whatever keys the dump
\* stores.
C3_EightCellsEqual ==
  (~relativistic /\ Returned("get_molecular_hamiltonian")) =>
    LET two == ReturnedTwoBody
        perm == PermLoopP(zeros4(two.shape), Val(two_body_int), 0)
    IN  \A p, q, r, s \in Range(two.shape \div 2) :
          \A c, d \in EightCells(p, q, r, s) :
            /\ At4(perm, c) = At4(perm, d)
            /\ At4(two, c) = At4(two, d)

\* C3 witness: a restricted dump storing two keys of one symmetry class
\* under different values, expanded into non-zero cells.
C3_Witness ==
  /\ ~relativistic
  /\ Returned("get_molecular_hamiltonian")
  /\ <<1, 1, 3, 3>> \in DOMAIN Val(two_body_int)
  /\ <<3, 3, 1, 1>> \in DOMAIN Val(two_body_int)
  /\ Val(two_body_int)[<<1, 1, 3, 3>>] # Val(two_body_int)[<<3, 3, 1, 1>>]
  /\ At4(ReturnedTwoBody, <<0, 2, 2, 0>>) # 0

\* C4: in restricted mode, for all spatial indices below n//2 the cells
\* [2p,2q,2r,2s], [2p+1,2q,2r,2s+1], [2p,2q+1,2r+1,2s] and
\* [2p+1,2q+1,2r+1,2s+1] of the returned tensor are equal, and the
\* spin-doubling step leaves every all-even cell as the permutation-symmetry
\* step wrote it.
C4_SpinSectorsEqual ==
  (~relativistic /\ Returned("get_molecular_hamiltonian")) =>
    LET two == ReturnedTwoBody
        perm == PermLoopP(zeros4(two.shape), Val(two_body_int), 0)
        spin == SpinLoopP(perm, 0)
    IN  \A p, q, r, s \in Range(two.shape \div 2) :
          /\ At4(two, <<2*p + 1, 2*q, 2*r, 2*s + 1>>)
               = At4(two, <<2*p, 2*q, 2*r, 2*s>>)
          /\ At4(two, <<2*p, 2*q + 1, 2*r + 1, 2*s>>)
               = At4(two, <<2*p, 2*q, 2*r, 2*s>>)
          /\ At4(two, <<2*p + 1, 2*q + 1, 2*r + 1, 2*s + 1>>)
               = At4(two, <<2*p, 2*q, 2*r, 2*s>>)
          /\ At4(spin, <<2*p, 2*q, 2*r, 2*s>>)
               = At4(perm, <<2*p, 2*q, 2*r, 2*s>>)

\* C4 witness: a returned restricted tensor whose all-odd cell of the
\* spatial indices (0,1,1,0) is non-zero.
C4_Witness ==
  /\ ~relativistic
  /\ Returned("get_molecular_hamiltonian")
  /\ ReturnedTwoBody.shape >= 4
  /\ At4(ReturnedTwoBody, <<1, 3, 3, 1>>) # 0
  /\ At4(ReturnedTwoBody, <<0, 3, 3, 0>>) # 0

\* C5 (as stated): in restricted mode every non-zero entry (p,q,r,s) of the
\* returned tensor equals the entries (q,p,s,r), (r,s,p,q), (s,r,q,p) and
\* (p,s,r,q).
C5_FiveFoldSymmetry ==
  (~relativistic /\ Returned("get_molecular_hamiltonian")) =>
    LET two == ReturnedTwoBody
    IN  \A p, q, r, s \in Range(two.shape) :
          At4(two, <<p, q, r, s>>) # 0 =>
            /\ At4(two, <<q, p, s, r>>) = At4(two, <<p, q, r, s>>)
            /\ At4(two, <<r, s, p, q>>) = At4(two, <<p, q, r, s>>)
            /\ At4(two, <<s, r, q, p>>) = At4(two, <<p, q, r, s>>)
            /\ At4(two, <<p, s, r, q>>) = At4(two, <<p, q, r, s>>)

\* C5 (amended): in restricted mode every non-zero entry (p,q,r,s) of the
\* returned tensor equals the entries (q,p,s,r), (r,s,p,q) and (s,r,q,p).
C5_PairExchangeSymmetry ==
  (~relativistic /\ Returned("get_molecular_hamiltonian")) =>
    LET two == ReturnedTwoBody
    IN  \A p, q, r, s \in Range(two.shape) :
          At4(two, <<p, q, r, s>>) # 0 =>
            /\ At4(two, <<q, p, s, r>>) = At4(two, <<p, q, r, s>>)
            /\ At4(two, <<r, s, p, q>>) = At4(two, <<p, q, r, s>>)
            /\ At4(two, <<s, r, q, p>>) = At4(two, <<p, q, r, s>>)

\* C5 witness: a returned restricted tensor with a non-zero mixed-spin
\* entry whose four index positions are not all alike.
C5_Witness ==
  /\ ~relativistic
  /\ Returned("get_molecular_hamiltonian")
  /\ At4(ReturnedTwoBody, <<1, 2, 2, 1>>) # 0
  /\ At4(ReturnedTwoBody, <<0, 2, 0, 2>>) # 0

\* C6 (as stated): the tensors get_molecular_hamiltonian returns have the
\* orbital count of the dump, the number of its orbital energies, as the
\* length of every axis.
C6_ShapeIsOrbitalCount ==
  Returned("get_molecular_hamiltonian") =>
    /\ ReturnedOneBody.shape = len(Val(spinor))
    /\ ReturnedTwoBody.shape = len(Val(spinor))

\* C7: without a dump, get_integrals_FCIDUMP, get_molecular_hamiltonian and
\* save (the log being there) raise FileNotFoundError and return nothing;
\* with a dump, whatever its records, they never raise it.
C7_MissingDumpIsDistinct ==
  result.op \in {"get_integrals_FCIDUMP", "get_molecular_hamiltonian", "save"}
  =>
    /\ ~FCIDUMP.exists =>
         result.exc = "FileNotFoundError" /\ result.value = None
    /\ FCIDUMP.exists => result.exc \in {"", "ValueError", "IndexError"}

\* C7 witness: get_molecular_hamiltonian called without a dump.
C7_Witness ==
  /\ ~FCIDUMP.exists
  /\ result.op = "get_molecular_hamiltonian"
  /\ result.exc = "FileNotFoundError"
  /\ one_body_int = None

\* The lines of the log that match a label, and the energy a line yields.
MatchingLines(label) ==
  { i \in 1..Len(out_file.lines) : Matches(label, out_file.lines[i]) }
EnergyOf(i) == Some(LastToken(out_file.lines[i]))
EnergyField(label) ==
  IF label = LabelHF THEN hf_energy
  ELSE IF label = LabelMP2 THEN mp2_energy ELSE ccsd_energy

\* C8 (as stated): after get_energies each energy is the last token of the
\* FIRST line matching its label, and None when no line matches.
C8_FirstMatchingLine ==
  Returned("get_energies") =>
    \A label \in {LabelHF, LabelMP2, LabelCCSD} :
      LET m == MatchingLines(label)
      IN  IF m = {} THEN EnergyField(label) = None
          ELSE EnergyField(label)
                 = EnergyOf(CHOOSE i \in m : \A j \in m : i <= j)

\* C8 (amended): after get_energies each energy is the last token of the
\* LAST line matching its label, and None when no line matches.
C8_LastMatchingLine ==
  Returned("get_energies") =>
    \A label \in {LabelHF, LabelMP2, LabelCCSD} :
      LET m == MatchingLines(label)
      IN  IF m = {} THEN EnergyField(label) = None
          ELSE EnergyField(label)
                 = EnergyOf(CHOOSE i \in m : \A j \in m : i >= j)

\* C8 witness: a log scanned whose lines 1 and 2 both match the
\* Hartree-Fock label with different last tokens, and no line the CCSD one.
C8_Witness ==
  /\ Returned("get_energies")
  /\ {1, 2} \subseteq MatchingLines(LabelHF)
  /\ EnergyOf(1) # EnergyOf(2)
  /\ MatchingLines(LabelCCSD) = {}
  /\ ccsd_energy = None

\* C9 (as stated): in restricted mode, when the tensor dimension is odd,
\* get_molecular_hamiltonian raises and returns nothing.
C9_OddDimensionFails ==
  ( /\ ~relativistic
    /\ result.op = "get_molecular_hamiltonian"
    /\ one_body_int # None
    /\ len(Val(one_body_int)) % 2 = 1 )
  => (result.exc # "" /\ result.value = None)

\* C10 (as stated): when a data record of the dump is structurally invalid,
\* get_molecular_hamiltonian raises and returns nothing.
C10_InvalidRecordFails ==
  ( /\ result.op = "get_molecular_hamiltonian"
    /\ FCIDUMP.exists
    /\ \E i \in 1..Len(DataRecords) : ~StructurallyValid(DataRecords[i]) )
  => (result.exc # "" /\ result.value = None)

\* The last of a non-empty set of record numbers.
LastOf(rows) == CHOOSE i \in rows : \A j \in rows : i >= j

\* C14: when the dump repeats a key, the reading raises nothing for it and
\* each mapping holds, under every key, the value of the LAST record of its
\* class with that key (no sum, no first value); the core energy is the
\* value of the last all-zero-index record, and 0 when there is none.
C14_LastWriteWins ==
  ( /\ result.op \in {"get_integrals_FCIDUMP", "get_molecular_hamiltonian"}
    /\ FCIDUMP.exists
    /\ \A i \in 1..Len(DataRecords) : StructurallyValid(DataRecords[i]) )
  =>
    LET rows == DataRecords
        core == RecordsWhere(IsCoreRecord)
        Orbital(a) == { i \in RecordsWhere(IsOrbitalRecord) :
                         Index(rows[i], 1) = a }
        OneBody(k) == { i \in RecordsWhere(IsOneBodyRecord) :
                         <<Index(rows[i], 1), Index(rows[i], 2)>> = k }
        TwoBody(k) == { i \in RecordsWhere(IsTwoBodyRecord) :
                         <<Index(rows[i], 1), Index(rows[i], 2),
                           Index(rows[i], 3), Index(rows[i], 4)>> = k }
    IN  /\ result.exc = ""
        /\ Val(E_core) = IF core = {} THEN 0
                          ELSE FloatOf(rows[LastOf(core)][1])
        /\ \A a \in DOMAIN Val(spinor) :
             Val(spinor)[a] = FloatOf(rows[LastOf(Orbital(a))][1])
        /\ \A k \in DOMAIN Val(one_body_int) :
             Val(one_body_int)[k] = FloatOf(rows[LastOf(OneBody(k))][1])
        /\ \A k \in DOMAIN Val(two_body_int) :
             Val(two_body_int)[k] = FloatOf(rows[LastOf(TwoBody(k))][1])

\* C14 witness: a dump read whose two records store the one-body key (1,1)
\* with different values and which has no core record.
C14_Witness ==
  /\ Returned("get_integrals_FCIDUMP")
  /\ DataRecords = << Record("0.4", 1, 1, 0, 0), Record("0.1", 1, 1, 0, 0) >>
  /\ Val(one_body_int) = [k \in { <<1, 1>> } |-> FloatOf("0.1")]
  /\ Val(E_core) = 0

\* The cells of a four-index tensor that are not 0.
NonZeroCells(two) ==
  { c \in Range(two.shape) \X Range(two.shape) \X Range(two.shape)
         \X Range(two.shape) : At4(two, c) # 0 }

\* C16: in restricted mode a cell [i,j,k,l] of the returned two-body tensor
\* is non-zero only if i and l have the same parity and j and k have the same
\* parity; and with dimension 4 and the single two-body key (1,1,1,1) of
\* value 0.4 exactly the cells (0,0,0,0), (1,0,0,1), (1,1,1,1), (0,1,1,0)
\* are non-zero and each holds 0.2.
C16_SpinSectorSupport ==
  (~relativistic /\ Returned("get_molecular_hamiltonian")) =>
    LET two == ReturnedTwoBody
    IN  /\ \A c \in NonZeroCells(two) :
             c[1] % 2 = c[4] % 2 /\ c[2] % 2 = c[3] % 2
        /\ ( /\ two.shape = 4
             /\ DOMAIN Val(two_body_int) = { <<1, 1, 1, 1>> }
             /\ Val(two_body_int)[<<1, 1, 1, 1>>] = FloatOf("0.4") )
           => /\ NonZeroCells(two) = { <<0, 0, 0, 0>>, <<1, 0, 0, 1>>,
                                       <<1, 1, 1, 1>>, <<0, 1, 1, 0>> }
              /\ \A c \in NonZeroCells(two) :
                   2 * At4(two, c) = FloatOf("0.4")

\* C16 witness: the restricted tensor of dimension 4 returned for the single
\* two-body key (1,1,1,1) of value 0.4, with the mixed-spin cell (1,0,0,1)
\* filled.
C16_Witness ==
  /\ ~relativistic
  /\ Returned("get_molecular_hamiltonian")
  /\ ReturnedTwoBody.shape = 4
  /\ DOMAIN Val(two_body_int) = { <<1, 1, 1, 1>> }
  /\ Val(two_body_int)[<<1, 1, 1, 1>>] = FloatOf("0.4")
  /\ At4(ReturnedTwoBody, <<1, 0, 0, 1>>) # 0

\* The tolerances compared by C12, in units.
Tolerances == 0..(2 * EQ_TOLERANCE + 1)

Cells2(array) == Range(array.shape) \X Range(array.shape)
Cells4(array) ==
  Range(array.shape) \X Range(array.shape) \X Range(array.shape)
    \X Range(array.shape)

\* C12: in each returned tensor, independently, every entry whose magnitude
\* before truncation is strictly below the tolerance is 0 and every other
\* entry is unchanged; truncating the returned tensors again changes
\* nothing; and for tolerances t1 <= t2 every entry zeroed under t1 is
\* zeroed under t2.
C12_Truncation ==
  Returned("get_molecular_hamiltonian") =>
    LET filled == Untruncated(Val(one_body_int), Val(two_body_int))
        Small(x) == x < EQ_TOLERANCE /\ 0 - x < EQ_TOLERANCE
    IN  /\ \A c \in Cells2(filled.one) :
             At2(ReturnedOneBody, c)
               = IF Small(At2(filled.one, c)) THEN 0 ELSE At2(filled.one, c)
        /\ \A c \in Cells4(filled.two) :
             At4(ReturnedTwoBody, c)
               = IF Small(At4(filled.two, c)) THEN 0 ELSE At4(filled.two, c)
        /\ Truncate2(ReturnedOneBody) = ReturnedOneBody
        /\ Truncate4(ReturnedTwoBody) = ReturnedTwoBody
        /\ \A t1, t2 \in Tolerances :
             t1 <= t2 =>
               /\ \A c \in Cells2(filled.one) :
                    TruncateAt(t1, At2(filled.one, c)) = 0
                      => TruncateAt(t2, At2(filled.one, c)) = 0
               /\ \A c \in Cells4(filled.two) :
                    TruncateAt(t1, At4(filled.two, c)) = 0
                      => TruncateAt(t2, At4(filled.two, c)) = 0

\* C12 witness: tensors returned in which a one-body entry below the
\* tolerance was zeroed while a negative one of larger magnitude and a
\* two-body entry exactly at the tolerance were kept.
C12_Witness ==
  /\ Returned("get_molecular_hamiltonian")
  /\ relativistic
  /\ Val(one_body_int) = [k \in { <<1, 1>>, <<1, 2>> } |->
                            IF k = <<1, 1>> THEN FloatOf("5e-9")
                            ELSE FloatOf("-2e-8")]
  /\ At2(ReturnedOneBody, <<0, 0>>) = 0
  /\ At2(ReturnedOneBody, <<0, 1>>) = FloatOf("-2e-8")
  /\ At4(ReturnedTwoBody, <<0, 0, 0, 0>>) = EQ_TOLERANCE

\* The stored one-body keys whose two cells exist in a tensor of dimension n.
KeysWithin(ob, n) ==
  { k \in DOMAIN ob : k[1] - 1 \in Range(n) /\ k[2] - 1 \in Range(n) }

FreshFields ==
  [E_core |-> None, spinor |-> None, one_body_int |-> None,
   two_body_int |-> None]

\* C11: whatever calls came before, and whatever the dump held when they
\* ran, get_molecular_hamiltonian returns for the dump as it is now the
\* core energy and the tensors that the first call on a new object returns,
\* and the parsed mappings hold no key and no core energy that the dump as
\* it is now does not give.
C11_ReparseIndependentOfHistory ==
  Returned("get_molecular_hamiltonian") =>
    LET rows == DataRecords
    IN  /\ result.value = HamiltonianCall(FreshFields).value
        /\ Val(result.value)[1].constant = Val(E_core)
        /\ RecordsWhere(IsCoreRecord) = {} => Val(E_core) = 0
        /\ DOMAIN Val(spinor)
             = { Index(rows[i], 1) : i \in RecordsWhere(IsOrbitalRecord) }
        /\ DOMAIN Val(one_body_int)
             = { <<Index(rows[i], 1), Index(rows[i], 2)>> :
                   i \in RecordsWhere(IsOneBodyRecord) }
        /\ DOMAIN Val(two_body_int)
             = { <<Index(rows[i], 1), Index(rows[i], 2), Index(rows[i], 3),
                   Index(rows[i], 4)>> : i \in RecordsWhere(IsTwoBodyRecord) }

\* C11 witness: get_molecular_hamiltonian has returned for DumpB on an object
\* that save() filled from a dump with another core energy.
C11_Witness ==
  /\ Returned("get_molecular_hamiltonian")
  /\ FCIDUMP = DumpB
  /\ molecular_hamiltonian # None
  /\ Val(molecular_hamiltonian).constant = FloatOf("1.5")
  /\ Val(result.value)[1].constant = 0

\* C13 (as stated): when get_integrals_FCIDUMP or get_energies ends, by a
\* normal return, by the exception of a malformed record or by that of a
\* missing file, every file object the call opened is closed.
C13_HandlesClosed ==
  result.op \in {"get_integrals_FCIDUMP", "get_energies"} =>
    \A i \in 1..Len(handles) : handles[i] = "closed"

\* C17 (as stated): a call of get_integrals_FCIDUMP or get_energies that
\* fails because its file is absent leaves E_core, spinor, one_body_int,
\* two_body_int, hf_energy, mp2_energy and ccsd_energy as they were.
C17_FailedCallKeepsFields ==
  [][ ( /\ result'.op \in {"get_integrals_FCIDUMP", "get_energies"}
        /\ result'.exc = MissingFile )
      => /\ integral_fields' = integral_fields
         /\ energy_fields' = energy_fields ]_vars

====
